---- MODULE Spec2Model ----
(***************************************************************************)
(* French-Health-Chatbot: the extractive RAG pipeline (src/rag_pipeline),  *)
(* the offline index build (build_vector_store.py) and the index load of   *)
(* the serving application (app.py).                                       *)
(*                                                                         *)
(* A Python str is a sequence of characters; a character is a one-element  *)
(* atom written as a TLA+ string.  The accented letters of the source are  *)
(* written "eacute", "egrave", "ucirc" (upper case "Eacute", ...), the     *)
(* no-break space "nbsp" and a private-use code point "U+E924".            *)
(***************************************************************************)
EXTENDS Integers, Sequences, FiniteSets

VARIABLES
    pc,               \* position of the operation being applied
    text,             \* _clean_text: input string
    cleaned,          \* _clean_text(text)
    recleaned,        \* _clean_text(_clean_text(text))
    query,            \* the user question
    topic_keywords,   \* _get_topic_keywords(query)
    results,          \* retrieval results (QueryResult records, rank order)
    filtered,         \* _filter_results_by_topic(results, query)
    snippets,         \* _merge_snippets: input list
    max_chars,        \* _merge_snippets: character budget
    merged_text,      \* _merge_snippets(snippets, max_chars)
    metadata,         \* the index's metadata records handed to the pipeline
    scores,           \* similarity of each index row to the query
    k,                \* number of results asked of retrieve_top_k
    max_chunk_chars,  \* answer_question_extractive: per-chunk truncation
    answer,           \* the dict answer_question_extractive returns
    emb_file,         \* vector_store/embeddings.npy on disk
    meta_file,        \* vector_store/metadata.json on disk
    build_pc,         \* build_vector_store.main: position
    build_chunks,     \* build_vector_store.main: chunks of the current run
    build_runs,       \* build_vector_store.main: runs started so far
    session           \* st.session_state of app.py

vars ==
    <<pc, text, cleaned, recleaned, query, topic_keywords, results, filtered,
      snippets, max_chars, merged_text, metadata, scores, k, max_chunk_chars,
      answer, emb_file, meta_file, build_pc, build_chunks, build_runs,
      session>>

-----------------------------------------------------------------------------
(* Python str primitives.                                                  *)

\* str.isspace() characters that occur in the modelled alphabet.
Whitespace == {" ", "\t", "\n", "\r", "nbsp"}

UpperChars ==
    <<"A","B","C","D","E","F","G","H","I","J","K","L","M","N","O","P","Q",
      "R","S","T","U","V","W","X","Y","Z","Eacute","Egrave","Ucirc">>

LowerChars ==
    <<"a","b","c","d","e","f","g","h","i","j","k","l","m","n","o","p","q",
      "r","s","t","u","v","w","x","y","z","eacute","egrave","ucirc">>

LowerChar(c) ==
    IF \E i \in 1..Len(UpperChars) : UpperChars[i] = c
    THEN LowerChars[CHOOSE i \in 1..Len(UpperChars) : UpperChars[i] = c]
    ELSE c

\* str.lower()
Lower(s) == [i \in 1..Len(s) |-> LowerChar(s[i])]

\* p in s
Contains(s, p) ==
    \E i \in 0..(Len(s) - Len(p)) : SubSeq(s, i + 1, i + Len(p)) = p

\* s.startswith(p)
StartsWith(s, p) == Len(p) <= Len(s) /\ SubSeq(s, 1, Len(p)) = p

\* s.endswith(p)
EndsWith(s, p) ==
    Len(p) <= Len(s) /\ SubSeq(s, Len(s) - Len(p) + 1, Len(s)) = p

\* s.replace(old, new) for a one-character old
ReplaceChar(s, old, new) ==
    [i \in 1..Len(s) |-> IF s[i] = old THEN new ELSE s[i]]

\* s.replace(old, new): non-overlapping occurrences, left to right
RECURSIVE Replace(_, _, _)
Replace(s, old, new) ==
    IF Len(s) = 0 THEN <<>>
    ELSE IF StartsWith(s, old)
         THEN new \o Replace(SubSeq(s, Len(old) + 1, Len(s)), old, new)
         ELSE <<s[1]>> \o Replace(Tail(s), old, new)

\* s.strip()
RECURSIVE LStrip(_)
LStrip(s) ==
    IF Len(s) > 0 /\ s[1] \in Whitespace THEN LStrip(Tail(s)) ELSE s

RECURSIVE RStrip(_)
RStrip(s) ==
    IF Len(s) > 0 /\ s[Len(s)] \in Whitespace
    THEN RStrip(SubSeq(s, 1, Len(s) - 1))
    ELSE s

Strip(s) == RStrip(LStrip(s))

\* s.split(sep) for a one-character sep: always at least one part
RECURSIVE Split(_, _)
Split(s, sep) ==
    IF ~ \E i \in 1..Len(s) : s[i] = sep THEN <<s>>
    ELSE LET i == CHOOSE j \in 1..Len(s) :
                      s[j] = sep /\ \A h \in 1..(j - 1) : s[h] # sep
         IN  <<SubSeq(s, 1, i - 1)>> \o Split(SubSeq(s, i + 1, Len(s)), sep)

\* sep.join(parts)
RECURSIVE Join(_, _)
Join(parts, sep) ==
    IF Len(parts) = 0 THEN <<>>
    ELSE IF Len(parts) = 1 THEN parts[1]
    ELSE parts[1] \o sep \o Join(Tail(parts), sep)

\* s[:n] for n >= 0
Prefix(s, n) == SubSeq(s, 1, IF n < Len(s) THEN n ELSE Len(s))

Range(f) == {f[i] : i \in DOMAIN f}

-----------------------------------------------------------------------------
(* rag_pipeline.py: the cleaning tables.                                   *)

\* The PDF artifact characters (private-use code points) of WEIRD_CHARS.
WEIRD_CHARS ==
    <<"U+E924", "U+E928", "U+E91F", "U+E91E", "U+E931", "U+E910", "U+E918",
      "U+E92E", "U+E927", "U+E92B", "U+E902", "U+E906", "U+E92C">>

UNWANTED_PATTERNS ==
    << <<"L","i","r","e"," ","a","u","s","s","i">>,
       <<"C","e","t"," ","a","r","t","i","c","l","e"," ","v","o","u","s"," ","a","-","t","-","i","l"," ","eacute","t","eacute"," ","u","t","i","l","e">>,
       <<"A","s","s","u","r","eacute"," ","E","n","t","r","e","p","r","i","s","e"," ","P","r","o","f","e","s","s","i","o","n","n","e","l"," ","d","e"," ","s","a","n","t","eacute">>,
       <<"S","o","u","r","c","e","s","U+E924">>,
       <<"S","i","t","e","s"," ","u","t","i","l","e","s">>,
       <<"O","u","i"," ","N","o","n">>,
       <<"C","o","p","i","e","r"," ","l","e"," ","l","i","e","n">> >>

BIBLIO_PATTERNS ==
    << <<"s","a","n","t","eacute"," ","p","u","b","l","i","q","u","e"," ","f","r","a","n","c","e">>,
       <<"c","o","n","s","u","l","t","eacute"," ","l","e">>,
       <<"s","i","t","e"," ","i","n","t","e","r","n","e","t">>,
       <<"s","a","i","n","t","-","m","a","u","r","i","c","e">>,
       <<"d","o","c","u","m","e","n","t"," ","d","e"," ","r","eacute","f","eacute","r","e","n","c","e">>,
       <<"p","d","f"," ",",">> >>

MONTHS ==
    << <<"j","a","n","v","i","e","r">>,
       <<"f","eacute","v","r","i","e","r">>,
       <<"f","e","v","r","i","e","r">>,
       <<"m","a","r","s">>,
       <<"a","v","r","i","l">>,
       <<"m","a","i">>,
       <<"j","u","i","n">>,
       <<"j","u","i","l","l","e","t">>,
       <<"a","o","ucirc","t">>,
       <<"a","o","u","t">>,
       <<"s","e","p","t","e","m","b","r","e">>,
       <<"o","c","t","o","b","r","e">>,
       <<"n","o","v","e","m","b","r","e">>,
       <<"d","eacute","c","e","m","b","r","e">>,
       <<"d","e","c","e","m","b","r","e">> >>

-----------------------------------------------------------------------------
(* rag_pipeline.py: _clean_text.                                           *)

\* for ch in WEIRD_CHARS: text = text.replace(ch, " ")
RECURSIVE ReplaceWeird(_, _)
ReplaceWeird(s, i) ==
    IF i > Len(WEIRD_CHARS) THEN s
    ELSE ReplaceWeird(ReplaceChar(s, WEIRD_CHARS[i], " "), i + 1)

\* while "  " in text: text = text.replace("  ", " ")
RECURSIVE CollapseSpaces(_)
CollapseSpaces(s) ==
    IF Contains(s, <<" ", " ">>)
    THEN CollapseSpaces(Replace(s, <<" ", " ">>, <<" ">>))
    ELSE s

\* A _clean_text whose space collapsing is one replace pass, not a loop.
CleanTextOnePass(t) ==
    IF Len(t) = 0 THEN <<>>
    ELSE Strip(Replace(
             ReplaceWeird(ReplaceChar(ReplaceChar(t, "\r", " "), "\n", " "), 1),
             <<" ", " ">>, <<" ">>))

CleanText(t) ==
    IF Len(t) = 0 THEN <<>>
    ELSE Strip(CollapseSpaces(
             ReplaceWeird(ReplaceChar(ReplaceChar(t, "\r", " "), "\n", " "), 1)))

-----------------------------------------------------------------------------
(* rag_pipeline.py: _get_topic_keywords.  The string literals of the rules. *)

W_otite == <<"o","t","i","t","e">>
W_rhinopharyng == <<"r","h","i","n","o","p","h","a","r","y","n","g">>
W_rhinopharyngite == <<"r","h","i","n","o","p","h","a","r","y","n","g","i","t","e">>
W_angine == <<"a","n","g","i","n","e">>
W_fievre_accent == <<"f","i","egrave","v","r","e">>
W_fievre == <<"f","i","e","v","r","e">>
W_gastro == <<"g","a","s","t","r","o">>
W_bronchiolite == <<"b","r","o","n","c","h","i","o","l","i","t","e">>
W_hypertension == <<"h","y","p","e","r","t","e","n","s","i","o","n">>
W_tension == <<"t","e","n","s","i","o","n">>
W_diabete_accent == <<"d","i","a","b","egrave","t","e">>
W_diabete == <<"d","i","a","b","e","t","e">>
W_migraine == <<"m","i","g","r","a","i","n","e">>
W_grippe == <<"g","r","i","p","p","e">>
W_covid == <<"c","o","v","i","d">>
W_asthme == <<"a","s","t","h","m","e">>
W_allerg == <<"a","l","l","e","r","g">>
W_allergie == <<"a","l","l","e","r","g","i","e">>
W_allergies == <<"a","l","l","e","r","g","i","e","s">>
W_cholesterol_accent == <<"c","h","o","l","e","s","t","eacute","r","o","l">>
W_cholesterol == <<"c","h","o","l","e","s","t","e","r","o","l">>

\* the if-chain of _get_topic_keywords over q = query.lower()
TopicChain(q) ==
    IF Contains(q, W_otite) THEN <<W_otite>>
    ELSE IF Contains(q, W_rhinopharyng) THEN <<W_rhinopharyngite>>
    ELSE IF Contains(q, W_angine) THEN <<W_angine>>
    ELSE IF Contains(q, W_fievre_accent) \/ Contains(q, W_fievre)
         THEN <<W_fievre>>
    ELSE IF Contains(q, W_gastro) THEN <<W_gastro>>
    ELSE IF Contains(q, W_bronchiolite) THEN <<W_bronchiolite>>
    ELSE IF Contains(q, W_hypertension) \/ Contains(q, W_tension)
         THEN <<W_hypertension>>
    ELSE IF Contains(q, W_diabete_accent) \/ Contains(q, W_diabete)
         THEN <<W_diabete>>
    ELSE IF Contains(q, W_migraine) THEN <<W_migraine>>
    ELSE IF Contains(q, W_grippe) THEN <<W_grippe>>
    ELSE IF Contains(q, W_covid) THEN <<W_covid>>
    ELSE IF Contains(q, W_asthme) THEN <<W_asthme>>
    ELSE IF Contains(q, W_allerg) THEN <<W_allergie, W_allergies>>
    ELSE IF Contains(q, W_cholesterol_accent) \/ Contains(q, W_cholesterol)
         THEN <<W_cholesterol>>
    ELSE <<>>

\* A _get_topic_keywords that matches the query as typed, not lower-cased.
GetTopicKeywordsNoLower(qry) == TopicChain(qry)

GetTopicKeywords(qry) == TopicChain(Lower(qry))

-----------------------------------------------------------------------------
(* rag_pipeline.py: _filter_results_by_topic.                              *)

\* any(kw in filename_lower for kw in topic_keywords)
FilenameMatches(r, kws) ==
    \E i \in 1..Len(kws) : Contains(Lower(r.filename), kws[i])

\* A filter without the fallback to the original results.
FilterResultsNoFallback(res, qry) ==
    LET kws == GetTopicKeywords(qry) IN
    IF kws = <<>> THEN res
    ELSE SelectSeq(res, LAMBDA r : FilenameMatches(r, kws))

\* A filter that compares the keywords with the filename as stored.
FilterResultsCaseSensitive(res, qry) ==
    LET kws == GetTopicKeywords(qry)
        flt == SelectSeq(res, LAMBDA r :
                   \E i \in 1..Len(kws) : Contains(r.filename, kws[i]))
    IN  IF kws = <<>> THEN res
        ELSE IF flt # <<>> THEN flt ELSE res

FilterResultsByTopic(res, qry) ==
    LET kws == GetTopicKeywords(qry)
        flt == SelectSeq(res, LAMBDA r : FilenameMatches(r, kws))
    IN  IF kws = <<>> THEN res
        ELSE IF flt # <<>> THEN flt ELSE res

-----------------------------------------------------------------------------
(* rag_pipeline.py: _merge_snippets.                                       *)

\* A loop that charges no separator: current_len + len(s) > max_chars.
RECURSIVE MergeLoopNoSeparator(_, _, _, _, _)
MergeLoopNoSeparator(snips, i, merged, current_len, maxc) ==
    IF i > Len(snips) THEN merged
    ELSE LET s == Strip(snips[i]) IN
         IF s = <<>>
         THEN MergeLoopNoSeparator(snips, i + 1, merged, current_len, maxc)
         ELSE IF current_len + Len(s) > maxc THEN merged
         ELSE MergeLoopNoSeparator(snips, i + 1, Append(merged, s),
                                   current_len + Len(s), maxc)

\* A loop that skips a snippet over the budget (continue) and goes on.
RECURSIVE MergeLoopContinue(_, _, _, _, _)
MergeLoopContinue(snips, i, merged, current_len, maxc) ==
    IF i > Len(snips) THEN merged
    ELSE LET s == Strip(snips[i]) IN
         IF s = <<>> \/ current_len + Len(s) + 1 > maxc
         THEN MergeLoopContinue(snips, i + 1, merged, current_len, maxc)
         ELSE MergeLoopContinue(snips, i + 1, Append(merged, s),
                                current_len + Len(s) + 1, maxc)

\* the for loop, from snippet i on: the list `merged` it ends with
RECURSIVE MergeLoop(_, _, _, _, _)
MergeLoop(snips, i, merged, current_len, maxc) ==
    IF i > Len(snips) THEN merged
    ELSE LET s == Strip(snips[i]) IN
         IF s = <<>>
         THEN MergeLoop(snips, i + 1, merged, current_len, maxc)   \* continue
         ELSE IF current_len + Len(s) + 1 > maxc THEN merged       \* break
         ELSE MergeLoop(snips, i + 1, Append(merged, s),
                        current_len + Len(s) + 1, maxc)

MergeSnippetsNoSeparator(snips, maxc) ==
    Strip(Join(MergeLoopNoSeparator(snips, 1, <<>>, 0, maxc), <<" ">>))

MergeSnippetsContinue(snips, maxc) ==
    Strip(Join(MergeLoopContinue(snips, 1, <<>>, 0, maxc), <<" ">>))

MergeSnippets(snips, maxc) ==
    Strip(Join(MergeLoop(snips, 1, <<>>, 0, maxc), <<" ">>))

-----------------------------------------------------------------------------
(* rag_pipeline.py: _split_sentences, _filter_sentences,                   *)
(* _summarize_snippet.                                                     *)

\* parts of a split, stripped, the empty ones dropped
RECURSIVE StripNonEmpty(_)
StripNonEmpty(parts) ==
    IF parts = <<>> THEN <<>>
    ELSE LET s == Strip(Head(parts)) IN
         (IF Len(s) > 0 THEN <<s>> ELSE <<>>) \o StripNonEmpty(Tail(parts))

SplitSentences(t) == StripNonEmpty(Split(CleanText(t), "."))

\* sentences shorter than this are dropped
MinSentenceLen == 30

\* whether _filter_sentences keeps the sentence s
KeepsSentence(s) ==
    LET s_clean == Strip(s)
        s_lower == Lower(s_clean)
    IN  /\ ~ (Len(s_clean) < MinSentenceLen)
        /\ ~ \E i \in 1..Len(UNWANTED_PATTERNS) :
                 Contains(s_lower, Lower(UNWANTED_PATTERNS[i]))
        /\ ~ \E i \in 1..Len(BIBLIO_PATTERNS) :
                 Contains(s_lower, BIBLIO_PATTERNS[i])
        /\ ~ \E i \in 1..Len(MONTHS) : StartsWith(s_lower, MONTHS[i])

RECURSIVE FilterSentences(_)
FilterSentences(sentences) ==
    IF sentences = <<>> THEN <<>>
    ELSE (IF KeepsSentence(Head(sentences))
          THEN <<Strip(Head(sentences))>> ELSE <<>>)
         \o FilterSentences(Tail(sentences))

SummarizeSnippet(t, max_sentences) ==
    LET sentences == FilterSentences(SplitSentences(t)) IN
    IF sentences = <<>> THEN <<>>
    ELSE LET kept == Prefix(sentences, max_sentences)
             summary == Strip(Join(kept, <<".", " ">>))
         IN  IF EndsWith(summary, <<".">>) THEN summary
             ELSE summary \o <<".">>

-----------------------------------------------------------------------------
(* retriever.retrieve_top_k: rows ranked by descending similarity, ties by *)
(* ascending row index, the first k returned.  sc[i] is the similarity of  *)
(* row i to the query, in hundredths.                                      *)

\* the number of rows ranked before row i
RankOf(sc, i) ==
    Cardinality({j \in 1..Len(sc) :
                    sc[j] > sc[i] \/ (sc[j] = sc[i] /\ j < i)})

RetrieveTopK(md, sc, kk) ==
    LET n == IF kk < Len(md) THEN kk ELSE Len(md) IN
    [p \in 1..n |->
        LET i == CHOOSE j \in 1..Len(md) : RankOf(sc, j) = p - 1 IN
        [filename |-> md[i].filename, score |-> sc[i],
         chunk_index |-> md[i].chunk_index, text |-> md[i].text]]

-----------------------------------------------------------------------------
(* rag_pipeline.py: answer_question_extractive.                            *)

NO_INFO_ANSWER ==
    <<"J","e"," ","n","rsquo","a","i"," ","t","r","o","u","v","eacute"," ",
      "a","u","c","u","n","e"," ","i","n","f","o","r","m","a","t","i","o",
      "n"," ","p","e","r","t","i","n","e","n","t","e"," ","s","u","r"," ",
      "c","e"," ","s","u","j","e","t"," ","d","a","n","s"," ","l","e","s",
      " ","d","o","c","u","m","e","n","t","s"," ","c","h","a","r","g",
      "eacute","s","."," ","M","e","r","c","i"," ","d","e"," ","v","eacute",
      "r","i","f","i","e","r"," ","q","u","e"," ","l","e","s"," ","b","r",
      "o","c","h","u","r","e","s"," ","P","D","F"," ","c","o","n","t","i",
      "e","n","n","e","n","t"," ","b","i","e","n"," ","d","e","s"," ","i",
      "n","f","o","r","m","a","t","i","o","n","s"," ","s","u","r"," ","c",
      "e","t","t","e"," ","q","u","e","s","t","i","o","n",".">>

NOT_REFORMULATED ==
    <<"L","e","s"," ","d","o","c","u","m","e","n","t","s"," ","c","o","n",
      "t","i","e","n","n","e","n","t"," ","d","e","s"," ","i","n","f","o",
      "r","m","a","t","i","o","n","s",","," ","m","a","i","s"," ","e","l",
      "l","e","s"," ","n","rsquo","o","n","t"," ","p","a","s"," ","p","u",
      " ","ecirc","t","r","e"," ","r","e","f","o","r","m","u","l","eacute",
      "e","s"," ","c","o","r","r","e","c","t","e","m","e","n","t","."," ",
      "M","e","r","c","i"," ","d","e"," ","r","e","f","o","r","m","u","l",
      "e","r"," ","v","o","t","r","e"," ","q","u","e","s","t","i","o","n",
      " ","o","u"," ","d","e"," ","c","o","n","s","u","l","t","e","r"," ",
      "u","n"," ","p","r","o","f","e","s","s","i","o","n","n","e","l"," ",
      "d","e"," ","s","a","n","t","eacute",".">>

ANSWER_INTRO ==
    <<"V","o","i","c","i"," ","u","n","e"," ","r","eacute","p","o","n","s",
      "e"," ","b","a","s","eacute","e"," ","s","u","r"," ","l","e","s"," ",
      "b","r","o","c","h","u","r","e","s"," ","d","i","s","p","o","n","i",
      "b","l","e","s"," ","c","o","n","c","e","r","n","a","n","t"," ","v",
      "o","t","r","e"," ","q","u","e","s","t","i","o","n"," ",":","\n",
      "\n">>

ANSWER_DISCLAIMER ==
    <<"\n","\n","C","e"," ","r","eacute","s","u","m","eacute"," ","e","s",
      "t"," ","d","i","r","e","c","t","e","m","e","n","t"," ","eacute","l",
      "a","b","o","r","eacute"," ","agrave"," ","p","a","r","t","i","r"," ",
      "d","e","s"," ","b","r","o","c","h","u","r","e","s","."," ","I","l",
      " ","f","o","u","r","n","i","t"," ","u","n","e"," ","i","n","f","o",
      "r","m","a","t","i","o","n"," ","g","eacute","n","eacute","r","a","l",
      "e"," ","e","t"," ","n","e"," ","r","e","m","p","l","a","c","e"," ",
      "*","*","e","n"," ","a","u","c","u","n"," ","c","a","s","*","*"," ",
      "l","rsquo","a","v","i","s"," ","d","rsquo","u","n"," ","p","r","o",
      "f","e","s","s","i","o","n","n","e","l"," ","d","e"," ","s","a","n",
      "t","eacute",".">>

\* os.path.basename: what follows the last "/"
Basename(path) ==
    LET slashes == {i \in 1..Len(path) : path[i] = "/"} IN
    IF slashes = {} THEN path
    ELSE SubSeq(path, (CHOOSE i \in slashes : \A j \in slashes : j <= i) + 1,
                Len(path))

\* the budget of the merged answer body
AnswerMaxChars == 900

\* max_sentences of the call of _summarize_snippet
AnswerMaxSentences == 3

\* A snippet that is the summary even when the summary is empty.
SnippetOfNoFallback(r, mcc) ==
    SummarizeSnippet(Prefix(r.text, mcc), AnswerMaxSentences)

\* `summarized` of one result: the summary of the truncated text, or the
\* cleaned truncated text when the summary is empty
SnippetOf(r, mcc) ==
    LET raw_text == Prefix(r.text, mcc)
        summarized == SummarizeSnippet(raw_text, AnswerMaxSentences)
    IN  IF summarized = <<>> THEN CleanText(raw_text) ELSE summarized

\* A sources list that gets an entry only for a non-empty snippet.
RECURSIVE SourcesListNonEmptyOnly(_, _)
SourcesListNonEmptyOnly(res, mcc) ==
    IF res = <<>> THEN <<>>
    ELSE (IF SnippetOf(Head(res), mcc) # <<>>
          THEN <<[filename |-> Basename(Head(res).filename),
                  score |-> Head(res).score,
                  chunk_index |-> Head(res).chunk_index,
                  snippet |-> SnippetOf(Head(res), mcc)]>>
          ELSE <<>>)
         \o SourcesListNonEmptyOnly(Tail(res), mcc)

\* sources_list after the loop over the results
SourcesList(res, mcc) ==
    [i \in 1..Len(res) |->
        [filename |-> Basename(res[i].filename),
         score |-> res[i].score,
         chunk_index |-> res[i].chunk_index,
         snippet |-> SnippetOf(res[i], mcc)]]

\* snippets_for_answer after the loop: the non-empty snippets
SnippetsForAnswer(res, mcc) ==
    SelectSeq([i \in 1..Len(res) |-> SnippetOf(res[i], mcc)],
              LAMBDA s : s # <<>>)

AnswerQuestionExtractive(qry, md, sc, kk, mcc) ==
    LET retrieved == RetrieveTopK(md, sc, kk) IN
    IF retrieved = <<>>
    THEN [question |-> qry, answer |-> NO_INFO_ANSWER, sources |-> <<>>]
    ELSE LET res == FilterResultsByTopic(retrieved, qry)
             merged == MergeSnippets(SnippetsForAnswer(res, mcc),
                                     AnswerMaxChars)
             combined_text == IF merged = <<>> THEN NOT_REFORMULATED
                              ELSE merged
         IN  [question |-> qry,
              answer |-> ANSWER_INTRO \o combined_text \o ANSWER_DISCLAIMER,
              sources |-> SourcesList(res, mcc)]

-----------------------------------------------------------------------------
(* The vector store on disk and app.py's session state.                    *)
(* A file is absent, or present and either complete (holding `count` rows  *)
(* or records) or cut short (created or truncated by open, not yet fully   *)
(* written).                                                               *)

AbsentFile == [present |-> FALSE, complete |-> FALSE, count |-> 0]
OpenedFile == [present |-> TRUE, complete |-> FALSE, count |-> 0]
WrittenFile(n) == [present |-> TRUE, complete |-> TRUE, count |-> n]

\* Python's None for session_state["embeddings"] and ["metadata"]
NoneValue == -1

\* st.session_state after the defaults of app.py
NewSessionState ==
    [index_ready |-> FALSE, embeddings |-> NoneValue, metadata |-> NoneValue,
     chat_history |-> <<>>]

\* load_vector_store: the session state it leaves.  Embeddings and
\* metadata are kept as their row and record counts.
LoadVectorStore(s, emb, meta) ==
    IF ~ emb.present \/ ~ meta.present THEN s          \* st.error; False
    ELSE IF ~ emb.complete \/ ~ meta.complete THEN s   \* except: False
    ELSE [s EXCEPT !.embeddings = emb.count, !.metadata = meta.count,
                   !.index_ready = TRUE]

\* `if not st.session_state["index_ready"]: load_vector_store()`
LoadIfNotReady(s, emb, meta) ==
    IF ~ s.index_ready THEN LoadVectorStore(s, emb, meta) ELSE s

-----------------------------------------------------------------------------
(* Idle values of the variables an operation does not use.                 *)

CleanIdle == text = <<>> /\ cleaned = <<>> /\ recleaned = <<>>
TopicIdle == query = <<>> /\ topic_keywords = <<>>
FilterIdle == results = <<>> /\ filtered = <<>>
MergeIdle == snippets = <<>> /\ max_chars = 0 /\ merged_text = <<>>
AnswerIdle ==
    /\ metadata = <<>> /\ scores = <<>> /\ k = 0 /\ max_chunk_chars = 0
    /\ answer = [question |-> <<>>, answer |-> <<>>, sources |-> <<>>]
StoreIdle ==
    /\ emb_file = AbsentFile /\ meta_file = AbsentFile
    /\ build_pc = "idle" /\ build_chunks = 0 /\ build_runs = 0
    /\ session = NewSessionState

cleanVars == <<text, cleaned, recleaned>>
topicVars == <<query, topic_keywords>>
filterVars == <<results, filtered>>
mergeVars == <<snippets, max_chars, merged_text>>
answerVars == <<metadata, scores, k, max_chunk_chars, answer>>
storeVars ==
    <<emb_file, meta_file, build_pc, build_chunks, build_runs, session>>

\* All strings over alphabet of length at most n.
Strings(alphabet, n) == UNION {[1..m -> alphabet] : m \in 0..n}

-----------------------------------------------------------------------------
(* _clean_text applied to a text, then to its own output.                  *)

MaxTextLen == 5

\* carriage return, newline, space, other whitespace, two denylisted
\* artifact characters (first and last of WEIRD_CHARS), an ordinary letter
CleanAlphabet == {"\r", "\n", " ", "\t", "U+E924", "U+E92C", "a"}

InitClean ==
    /\ pc = "clean"
    /\ text \in Strings(CleanAlphabet, MaxTextLen)
    /\ cleaned = <<>> /\ recleaned = <<>>
    /\ TopicIdle /\ FilterIdle /\ MergeIdle /\ AnswerIdle /\ StoreIdle

CleanOnce ==
    /\ pc = "clean"
    /\ cleaned' = CleanText(text)
    /\ pc' = "reclean"
    /\ UNCHANGED <<text, recleaned, topicVars, filterVars, mergeVars,
                   answerVars, storeVars>>

CleanTwice ==
    /\ pc = "reclean"
    /\ recleaned' = CleanText(cleaned)
    /\ pc' = "done"
    /\ UNCHANGED <<text, cleaned, topicVars, filterVars, mergeVars,
                   answerVars, storeVars>>

NextClean == CleanOnce \/ CleanTwice

SpecClean == InitClean /\ [][NextClean]_vars

\* C9: _clean_text is idempotent: cleaning the cleaned text gives the
\* cleaned text again, for every input over the modelled alphabet.
CleanIdempotent == pc = "done" => recleaned = cleaned

\* C9 witness: a text with a newline, an artifact character and a space
\* between two letters (a run of three spaces once replaced, which one
\* replace pass does not collapse) has been cleaned twice.
CleanIdempotentWitness ==
    /\ pc = "done"
    /\ text = <<"a", "\n", "U+E924", " ", "a">>
    /\ cleaned = <<"a", " ", "a">>
    /\ recleaned = cleaned

-----------------------------------------------------------------------------
(* _get_topic_keywords applied to a query.                                 *)

MaxQueryWords == 2

\* Every trigger of the rules, upper-case spellings, a near miss and
\* ordinary words; a query is a concatenation of at most MaxQueryWords.
QueryWords ==
    { W_otite, W_rhinopharyng, W_angine, W_fievre_accent, W_fievre, W_gastro,
      W_bronchiolite, W_hypertension, W_tension, W_diabete_accent, W_diabete,
      W_migraine, W_grippe, W_covid, W_asthme, W_allerg,
      W_cholesterol_accent, W_cholesterol,
      <<"M","o","n"," ","e","n","f","a","n","t"," ","a"," ","u","n","e"," ">>,
      <<"o","t","i","t">>,
      <<"O","t","i","t","e">>,
      <<"D","I","A","B","Egrave","T","E">>,
      <<"H","y","p","e","r">>,
      <<" ","e","t"," ">> }

Queries == {Join(ws, <<>>) : ws \in Strings(QueryWords, MaxQueryWords)}

InitTopic ==
    /\ pc = "detect"
    /\ query \in Queries
    /\ topic_keywords = <<>>
    /\ CleanIdle /\ FilterIdle /\ MergeIdle /\ AnswerIdle /\ StoreIdle

DetectTopic ==
    /\ pc = "detect"
    /\ topic_keywords' = GetTopicKeywords(query)
    /\ pc' = "done"
    /\ UNCHANGED <<query, cleanVars, filterVars, mergeVars, answerVars,
                   storeVars>>

NextTopic == DetectTopic

SpecTopic == InitTopic /\ [][NextTopic]_vars

\* The rules in the order the claim states them: triggers and tags.
TopicRuleOrder ==
    << [triggers |-> {W_otite}, tags |-> <<W_otite>>],
       [triggers |-> {W_rhinopharyng}, tags |-> <<W_rhinopharyngite>>],
       [triggers |-> {W_angine}, tags |-> <<W_angine>>],
       [triggers |-> {W_fievre_accent, W_fievre}, tags |-> <<W_fievre>>],
       [triggers |-> {W_gastro}, tags |-> <<W_gastro>>],
       [triggers |-> {W_bronchiolite}, tags |-> <<W_bronchiolite>>],
       [triggers |-> {W_hypertension, W_tension},
        tags |-> <<W_hypertension>>],
       [triggers |-> {W_diabete_accent, W_diabete}, tags |-> <<W_diabete>>],
       [triggers |-> {W_migraine}, tags |-> <<W_migraine>>],
       [triggers |-> {W_grippe}, tags |-> <<W_grippe>>],
       [triggers |-> {W_covid}, tags |-> <<W_covid>>],
       [triggers |-> {W_asthme}, tags |-> <<W_asthme>>],
       [triggers |-> {W_allerg}, tags |-> <<W_allergie, W_allergies>>],
       [triggers |-> {W_cholesterol_accent, W_cholesterol},
        tags |-> <<W_cholesterol>>] >>

\* The rules some trigger of which occurs in the lower-cased query.
TriggeredRules(qry) ==
    {i \in 1..Len(TopicRuleOrder) :
        \E t \in TopicRuleOrder[i].triggers : Contains(Lower(qry), t)}

\* C6: the keywords returned are the tags of the earliest rule (in the
\* stated order) with a trigger in the lower-cased query, and of that rule
\* only; with no trigger in the query the list is empty.
FirstRuleWins ==
    pc = "done" =>
        LET hit == TriggeredRules(query) IN
        IF hit = {} THEN topic_keywords = <<>>
        ELSE topic_keywords =
                 TopicRuleOrder[CHOOSE i \in hit : \A j \in hit : i <= j].tags

\* C6 witness: an upper-case query naming diabete before otite triggers
\* two rules and gets the tags of the earlier rule, otite, alone.
FirstRuleWinsWitness ==
    /\ pc = "done"
    /\ query = <<"D","I","A","B","Egrave","T","E">> \o <<"O","t","i","t","e">>
    /\ TriggeredRules(query) = {1, 8}
    /\ topic_keywords = <<W_otite>>

-----------------------------------------------------------------------------
(* _filter_results_by_topic applied to a query and a result list.          *)

MaxResults == 3

F_otite_conduite == <<"o","t","i","t","e","_","c","o","n","d","u","i","t","e",".","p","d","f">>
F_diabete_info == <<"d","i","a","b","e","t","e","_","i","n","f","o",".","p","d","f">>
F_OTITE == <<"O","T","I","T","E",".","P","D","F">>

\* The files of the corpus: two whose name holds "otite" (one in upper
\* case) and one whose name does not.
CorpusFiles == {F_otite_conduite, F_diabete_info, F_OTITE}

Q_otite == <<"M","o","n"," ","e","n","f","a","n","t"," ","a"," ","u","n","e"," ","o","t","i","t","e",","," ","q","u","e"," ","f","a","i","r","e"," ","?">>
Q_diabete == <<"D","i","a","b","egrave","t","e">>
Q_grippe == <<"g","r","i","p","p","e">>
Q_none == <<"b","o","n","j","o","u","r">>

\* Queries: a topic with files in the corpus (two of them), a topic with no
\* file in the corpus, no topic.
FilterQueries == {Q_otite, Q_diabete, Q_grippe, Q_none}

\* Similarity scores in hundredths.
ScoreValues == {20, 80}

ChunkIndexes == {0, 1}

ChunkText == <<"t","e","x","t","e">>

ResultPool ==
    [filename : CorpusFiles, score : ScoreValues, chunk_index : ChunkIndexes,
     text : {ChunkText}]

\* What retrieval can return: distinct chunks, by descending score.
RankedResults ==
    {rs \in Strings(ResultPool, MaxResults) :
        /\ \A i \in 1..(Len(rs) - 1) : rs[i].score >= rs[i + 1].score
        /\ \A i, j \in 1..Len(rs) :
              i # j => <<rs[i].filename, rs[i].chunk_index>>
                           # <<rs[j].filename, rs[j].chunk_index>>}

InitFilter ==
    /\ pc = "filter"
    /\ query \in FilterQueries
    /\ results \in RankedResults
    /\ topic_keywords = <<>> /\ filtered = <<>>
    /\ CleanIdle /\ MergeIdle /\ AnswerIdle /\ StoreIdle

FilterByTopic ==
    /\ pc = "filter"
    /\ topic_keywords' = GetTopicKeywords(query)
    /\ filtered' = FilterResultsByTopic(results, query)
    /\ pc' = "done"
    /\ UNCHANGED <<query, results, cleanVars, mergeVars, answerVars,
                   storeVars>>

NextFilter == FilterByTopic

SpecFilter == InitFilter /\ [][NextFilter]_vars

\* C1: filtering a non-empty result list never gives an empty list.
FilterNeverEmpties == (pc = "done" /\ results # <<>>) => filtered # <<>>

\* C1 witness: a topic is detected, no result's filename holds its keyword,
\* and the unfiltered results come back.
FilterNeverEmptiesWitness ==
    /\ pc = "done"
    /\ query = Q_otite
    /\ topic_keywords = <<W_otite>>
    /\ Len(results) = 2
    /\ \A i \in 1..Len(results) : results[i].filename = F_diabete_info
    /\ filtered = results

\* Whether the corpus holds a file matching the keywords and one not.
CorpusHasBoth(kws) ==
    /\ \E f \in CorpusFiles : FilenameMatches([filename |-> f], kws)
    /\ \E f \in CorpusFiles : ~ FilenameMatches([filename |-> f], kws)

\* C5 as stated: with a topic detected and a corpus holding a matching and a
\* non-matching file, no result of a non-matching file survives the filter,
\* whichever chunks were retrieved.
FilterDropsEveryOtherFile ==
    (pc = "done" /\ topic_keywords # <<>> /\ CorpusHasBoth(topic_keywords))
        => \A i \in 1..Len(filtered) :
               FilenameMatches(filtered[i], topic_keywords)

\* C5 amended: with a topic detected and at least one retrieved result of a
\* matching file, the filter returns exactly the results of matching files,
\* in rank order, whatever their scores; with no such result it returns the
\* results unchanged.
FilterDropsOtherFilesWhenSomeMatch ==
    (pc = "done" /\ topic_keywords # <<>>)
        => IF \E i \in 1..Len(results) :
                  FilenameMatches(results[i], topic_keywords)
           THEN /\ \A i \in 1..Len(filtered) :
                       FilenameMatches(filtered[i], topic_keywords)
                /\ \A i \in 1..Len(results) :
                       FilenameMatches(results[i], topic_keywords)
                           => \E j \in 1..Len(filtered) :
                                  filtered[j] = results[i]
                /\ \A i, j \in 1..Len(filtered) :
                       i < j => \E a, b \in 1..Len(results) :
                                    /\ a < b
                                    /\ results[a] = filtered[i]
                                    /\ results[b] = filtered[j]
           ELSE filtered = results

\* C5 witness: the otite query; the best-scored result is of diabete_info,
\* the others of files named otite (one in upper case), and only these two
\* are kept.
FilterDropsOtherFilesWitness ==
    /\ pc = "done"
    /\ query = Q_otite
    /\ Len(results) = 3
    /\ results[1].filename = F_diabete_info /\ results[1].score = 80
    /\ results[2].filename = F_OTITE /\ results[2].score = 20
    /\ results[3].filename = F_otite_conduite
    /\ filtered = <<results[2], results[3]>>

-----------------------------------------------------------------------------
(* _merge_snippets applied to a snippet list and a budget.                 *)

MaxSnippets == 3

\* max_chars ranges over 0..MaxBudget.
MaxBudget == 9

\* Empty, blank, padded, with an inner space, and of lengths 1 to 5.
SnippetPool ==
    { <<>>,
      <<" ">>,
      <<"a">>,
      <<"a","b">>,
      <<" ","a","b","c"," ">>,
      <<"a"," ","b">>,
      <<"a","b","c","d","e">> }

InitMerge ==
    /\ pc = "merge"
    /\ snippets \in Strings(SnippetPool, MaxSnippets)
    /\ max_chars \in 0..MaxBudget
    /\ merged_text = <<>>
    /\ CleanIdle /\ TopicIdle /\ FilterIdle /\ AnswerIdle /\ StoreIdle

Merge ==
    /\ pc = "merge"
    /\ merged_text' = MergeSnippets(snippets, max_chars)
    /\ pc' = "done"
    /\ UNCHANGED <<snippets, max_chars, cleanVars, topicVars, filterVars,
                   answerVars, storeVars>>

NextMerge == Merge

SpecMerge == InitMerge /\ [][NextMerge]_vars

\* The trimmed snippets at the indexes idx, in input order.
RECURSIVE TrimmedAt(_, _, _)
TrimmedAt(snips, idx, i) ==
    IF i > Len(snips) THEN <<>>
    ELSE (IF i \in idx THEN <<Strip(snips[i])>> ELSE <<>>)
         \o TrimmedAt(snips, idx, i + 1)

\* The non-empty trimmed snippets, in input order.
NonEmptyTrimmed(snips) ==
    TrimmedAt(snips, {i \in 1..Len(snips) : Strip(snips[i]) # <<>>}, 1)

\* C2: the merged text is at most max_chars long and is the single-space
\* join of whole trimmed input snippets taken in input order.
MergeWithinBudgetWhole ==
    pc = "done" =>
        /\ Len(merged_text) <= max_chars
        /\ \E idx \in SUBSET (1..Len(snippets)) :
               merged_text = Join(TrimmedAt(snippets, idx, 1), <<" ">>)

\* C2 witness: three snippets of which the first two (trimmed) fill the
\* budget and the third is left out whole.
MergeWithinBudgetWholeWitness ==
    /\ pc = "done"
    /\ snippets = <<<<" ","a","b","c"," ">>, <<"a","b">>, <<"a">>>>
    /\ max_chars = 7
    /\ merged_text = <<"a","b","c"," ","a","b">>

\* The longest prefix of the non-empty trimmed snippets whose single-space
\* join is at most limit long (0 when not even the first fits).
LongestPrefixWithin(snips, limit) ==
    LET ne == NonEmptyTrimmed(snips)
        fit == {n \in 1..Len(ne) :
                   Len(Join(SubSeq(ne, 1, n), <<" ">>)) <= limit}
    IN  IF fit = {} THEN <<>>
        ELSE SubSeq(ne, 1, CHOOSE n \in fit : \A h \in fit : h <= n)

\* C7 as stated: the merged text is the join of the longest prefix of the
\* non-empty snippets whose joined length does not exceed max_chars; it is
\* empty only with no non-empty snippet or a first one longer than
\* max_chars.
MergeLongestPrefixWithinMaxChars ==
    pc = "done" =>
        /\ merged_text =
               Join(LongestPrefixWithin(snippets, max_chars), <<" ">>)
        /\ merged_text = <<>> =>
               \/ NonEmptyTrimmed(snippets) = <<>>
               \/ Len(NonEmptyTrimmed(snippets)[1]) > max_chars

\* C7 amended: every snippet, the first included, is charged its length
\* plus one, so the merged text is the join of the longest prefix of the
\* non-empty trimmed snippets whose joined length does not exceed
\* max_chars - 1; it is empty only with no non-empty snippet or a first one
\* of length max_chars or more.
MergeLongestPrefixWithinMaxCharsLessOne ==
    pc = "done" =>
        /\ merged_text =
               Join(LongestPrefixWithin(snippets, max_chars - 1), <<" ">>)
        /\ merged_text = <<>> =>
               \/ NonEmptyTrimmed(snippets) = <<>>
               \/ Len(NonEmptyTrimmed(snippets)[1]) >= max_chars

\* C7 witness: two snippets whose join is exactly max_chars long; only the
\* first is merged, and a later snippet that would fit is not.
MergeLongestPrefixWitness ==
    /\ pc = "done"
    /\ snippets = <<<<"a","b">>, <<" ","a","b","c"," ">>, <<"a">>>>
    /\ max_chars = 6
    /\ merged_text = <<"a","b">>

-----------------------------------------------------------------------------
(* answer_question_extractive applied to a query and an index.             *)

MaxRows == 2

\* only sentences shorter than 30 characters
T_short ==
    <<"R","e","p","o","s",".","\n","B","o","i","r","e"," ","d","e"," ","l",
      "'","e","a","u","."," "," ","V","o","i","r"," ","u","n"," ","m",
      "eacute","d","e","c","i","n",".">>

\* one sentence of 30 characters or more and a short one
T_long ==
    <<"L","'","o","t","i","t","e"," ","e","s","t"," ","u","n","e"," ","i",
      "n","f","e","c","t","i","o","n"," ","d","e"," ","l","'","o","r","e",
      "i","l","l","e"," ","m","o","y","e","n","n","e","."," ","C","o","n",
      "s","u","l","t","e","r",".">>

\* long sentences, one with a phrase of UNWANTED_PATTERNS, one starting
\* with a month
T_noise ==
    <<"L","i","r","e"," ","a","u","s","s","i"," ","n","o","s"," ","c","o",
      "n","s","e","i","l","s"," ","p","o","u","r"," ","t","o","u","t","e",
      " ","l","a"," ","f","a","m","i","l","l","e","."," ","M","a","r","s",
      " ","2","0","2","1"," ","c","a","m","p","a","g","n","e"," ","d","e",
      " ","v","a","c","c","i","n","a","t","i","o","n"," ","n","a","t","i",
      "o","n","a","l","e",".">>

\* whitespace and an artifact character only
T_blank == <<" ","\n","U+E924"," ">>

AnswerTexts == {T_short, T_long, T_noise, T_blank}

F_path_otite == <<"b","r","o","c","h","u","r","e","s","/","o","t","i","t","e","_","c","o","n","d","u","i","t","e",".","p","d","f">>

AnswerFiles == {F_path_otite, F_diabete_info}

\* The chunks an index row is drawn from: every text under a file named
\* otite (stored with its directory), some under diabete_info.pdf.
AnswerRows ==
    [filename : {F_path_otite}, text : AnswerTexts]
        \cup [filename : {F_diabete_info}, text : {T_noise, T_short}]

AnswerQueries == {Q_otite, Q_none}

\* k: the application asks for 3
AnswerKs == {1, 3}

\* max_chunk_chars: the application passes 600; 20 cuts every text short
AnswerChunkChars == {20, 600}

\* metadata records of the rows: chunk_index counts the earlier chunks of
\* the same file
MetadataOf(rows) ==
    [i \in 1..Len(rows) |->
        [filename |-> rows[i].filename,
         chunk_index |->
             Cardinality({j \in 1..(i - 1) :
                             rows[j].filename = rows[i].filename}),
         text |-> rows[i].text]]

InitAnswer ==
    /\ pc = "answer"
    /\ query \in AnswerQueries
    /\ \E rows \in Strings(AnswerRows, MaxRows) :
           /\ metadata = MetadataOf(rows)
           /\ scores \in [1..Len(rows) -> ScoreValues]
    /\ k \in AnswerKs
    /\ max_chunk_chars \in AnswerChunkChars
    /\ answer = [question |-> <<>>, answer |-> <<>>, sources |-> <<>>]
    /\ topic_keywords = <<>> /\ results = <<>> /\ filtered = <<>>
    /\ CleanIdle /\ MergeIdle /\ StoreIdle

Answer ==
    /\ pc = "answer"
    /\ results' = RetrieveTopK(metadata, scores, k)
    /\ topic_keywords' = GetTopicKeywords(query)
    /\ filtered' = FilterResultsByTopic(results', query)
    /\ answer' = AnswerQuestionExtractive(query, metadata, scores, k,
                                          max_chunk_chars)
    /\ pc' = "done"
    /\ UNCHANGED <<query, metadata, scores, k, max_chunk_chars, cleanVars,
                   mergeVars, storeVars>>

NextAnswer == Answer

SpecAnswer == InitAnswer /\ [][NextAnswer]_vars

\* C4: the sources are empty exactly when retrieval returned nothing, and
\* then the answer is the fixed no-information text and the question is the
\* query; otherwise there is one source per topic-filtered result, in rank
\* order.
SourcesEmptyIffNoResults ==
    pc = "done" =>
        /\ answer.sources = <<>> <=> results = <<>>
        /\ results = <<>> =>
               answer.answer = NO_INFO_ANSWER /\ answer.question = query
        /\ results # <<>> =>
               /\ Len(answer.sources) = Len(filtered)
               /\ Len(answer.sources) > 0
               /\ \A i \in 1..Len(filtered) :
                      /\ answer.sources[i].filename
                             = Basename(filtered[i].filename)
                      /\ answer.sources[i].score = filtered[i].score
                      /\ answer.sources[i].chunk_index
                             = filtered[i].chunk_index

\* C4 witness: an index of zero rows, the otite query: no result, no
\* source, the fixed answer.
SourcesEmptyIffNoResultsWitness ==
    /\ pc = "done"
    /\ metadata = <<>>
    /\ query = Q_otite
    /\ results = <<>>
    /\ answer = [question |-> Q_otite, answer |-> NO_INFO_ANSWER,
                 sources |-> <<>>]

\* C8: a result whose truncated text has an empty summary gets the cleaned
\* truncated text as snippet; a snippet is empty only when that cleaned
\* text is empty.
EmptySummaryFallsBackToCleanText ==
    pc = "done" =>
        \A i \in 1..Len(answer.sources) :
            LET raw_text == Prefix(filtered[i].text, max_chunk_chars) IN
            /\ SummarizeSnippet(raw_text, AnswerMaxSentences) = <<>> =>
                   answer.sources[i].snippet = CleanText(raw_text)
            /\ answer.sources[i].snippet = <<>> => CleanText(raw_text) = <<>>

\* C8 witness: the only result's text has three sentences, all shorter than
\* 30 characters; its snippet is the text with the newline and the double
\* space cleaned.
EmptySummaryFallbackWitness ==
    /\ pc = "done"
    /\ max_chunk_chars = 600
    /\ Len(filtered) = 1
    /\ filtered[1].text = T_short
    /\ \A s \in Range(SplitSentences(T_short)) : Len(s) < MinSentenceLen
    /\ Len(answer.sources) = 1
    /\ answer.sources[1].snippet =
           <<"R","e","p","o","s","."," ","B","o","i","r","e"," ","d","e"," ","l","'","e","a","u","."," ","V","o","i","r"," ","u","n"," ","m","eacute","d","e","c","i","n",".">>

-----------------------------------------------------------------------------
(* The offline build (build_vector_store.main), run and re-run over the    *)
(* same vector_store directory, and the application's script runs.         *)

MaxChunks == 2

MaxBuildRuns == 2

MaxTurns == 2

InitStore ==
    /\ pc = "store"
    /\ emb_file = AbsentFile /\ meta_file = AbsentFile
    /\ build_pc = "idle" /\ build_chunks = 0 /\ build_runs = 0
    /\ session = NewSessionState
    /\ CleanIdle /\ TopicIdle /\ FilterIdle /\ MergeIdle /\ AnswerIdle

quietVars ==
    <<pc, cleanVars, topicVars, filterVars, mergeVars, answerVars>>

\* main, lines 13-30: the brochures folder is missing or holds no PDF/TXT
\* file: FileNotFoundError, nothing written.
BuildNoBrochures ==
    /\ build_pc = "idle" /\ build_runs < MaxBuildRuns
    /\ build_runs' = build_runs + 1
    /\ UNCHANGED <<emb_file, meta_file, build_pc, build_chunks, session,
                   quietVars>>

\* main, lines 13-61: extraction, chunking and embedding give n chunks, in
\* memory.
BuildCompute ==
    /\ build_pc = "idle" /\ build_runs < MaxBuildRuns
    /\ \E n \in 1..MaxChunks : build_chunks' = n
    /\ build_runs' = build_runs + 1
    /\ build_pc' = "computed"
    /\ UNCHANGED <<emb_file, meta_file, session, quietVars>>

\* main, lines 64-69: np.save creates or truncates embeddings.npy ...
BuildOpenEmbeddings ==
    /\ build_pc = "computed"
    /\ emb_file' = OpenedFile
    /\ build_pc' = "emb_open"
    /\ UNCHANGED <<meta_file, build_chunks, build_runs, session, quietVars>>

\* ... and writes the array.
BuildWriteEmbeddings ==
    /\ build_pc = "emb_open"
    /\ emb_file' = WrittenFile(build_chunks)
    /\ build_pc' = "emb_saved"
    /\ UNCHANGED <<meta_file, build_chunks, build_runs, session, quietVars>>

\* main, line 71: open(meta_path, "w") creates or truncates metadata.json.
BuildOpenMetadata ==
    /\ build_pc = "emb_saved"
    /\ meta_file' = OpenedFile
    /\ build_pc' = "meta_open"
    /\ UNCHANGED <<emb_file, build_chunks, build_runs, session, quietVars>>

\* main, lines 72-76: json.dump writes the records; the run ends.
BuildDumpMetadata ==
    /\ build_pc = "meta_open"
    /\ meta_file' = WrittenFile(build_chunks)
    /\ build_pc' = "idle"
    /\ UNCHANGED <<emb_file, build_chunks, build_runs, session, quietVars>>

\* The run raises or is interrupted where it stands; the files stay as
\* they are.
BuildAbort ==
    /\ build_pc # "idle"
    /\ build_pc' = "idle"
    /\ UNCHANGED <<emb_file, meta_file, build_chunks, build_runs, session,
                   quietVars>>

\* app.py, a script run with no question: lines 35-73.
AppRun ==
    /\ session' = LoadIfNotReady(session, emb_file, meta_file)
    /\ UNCHANGED <<emb_file, meta_file, build_pc, build_chunks, build_runs,
                   quietVars>>

\* app.py, a script run with a question: lines 35-73, then 101-163.  A
\* turn records the row and record counts of the pair it was answered
\* against.  With differing counts retrieve_top_k indexes one with the
\* positions of the other: the request is answered or raises.
AppAsk ==
    LET s == LoadIfNotReady(session, emb_file, meta_file) IN
    /\ Len(session.chat_history) < MaxTurns
    /\ \E raises \in IF s.embeddings = s.metadata THEN {FALSE} ELSE BOOLEAN :
           session' =
               IF s.index_ready /\ ~ raises
               THEN [s EXCEPT !.chat_history =
                        Append(@, [rows |-> s.embeddings,
                                   records |-> s.metadata])]
               ELSE s
    /\ UNCHANGED <<emb_file, meta_file, build_pc, build_chunks, build_runs,
                   quietVars>>

\* A new browser session: session_state starts from the defaults.
AppNewSession ==
    /\ session # NewSessionState
    /\ session' = NewSessionState
    /\ UNCHANGED <<emb_file, meta_file, build_pc, build_chunks, build_runs,
                   quietVars>>

NextStore ==
    \/ BuildNoBrochures
    \/ BuildCompute
    \/ BuildOpenEmbeddings
    \/ BuildWriteEmbeddings
    \/ BuildOpenMetadata
    \/ BuildDumpMetadata
    \/ BuildAbort
    \/ AppRun
    \/ AppAsk
    \/ AppNewSession

SpecStore == InitStore /\ [][NextStore]_vars

\* C3 as stated: a pair whose row count differs from its record count is
\* never marked ready, and no question is answered against such a pair.
LoadRejectsMismatchedPair ==
    /\ session.index_ready => session.embeddings = session.metadata
    /\ \A i \in 1..Len(session.chat_history) :
           session.chat_history[i].rows = session.chat_history[i].records

\* C10 as stated: at every point of every run of the build the directory
\* holds both files or neither.
BothFilesOrNeither == emb_file.present = meta_file.present

====
